---- MODULE Spec2Model ----
(***************************************************************************)
(* A model of the two widgets of src/native: the resizable Split           *)
(* (split.rs) and the right-click ContextMenu (context_menu.rs).           *)
(*                                                                         *)
(* f32 values (sizes, spacing, padding, coordinates) are fixed-point       *)
(* integers counting 1/Frac of a pixel; u16 values are integers in         *)
(* 0..U16Modulus-1 with the wrap-or-panic arithmetic of the build.         *)
(***************************************************************************)
EXTENDS Integers, Sequences, FiniteSets, TLC

\* Fixed-point resolution of the f32 values: units per pixel.
Frac == 2
\* Cap of the history counters of right presses.
MaxPresses == 3
\* u16 is the type of divider_position, min_size_first, min_size_second.
U16Modulus == 65536

VARIABLES
    split,            \* the Split widget's configuration (struct Split)
    overflow_checks,  \* build profile: TRUE when u16 overflow panics
    node,             \* the Node returned by the last Split layout
    dragging,         \* SplitState.dragging
    shell,            \* what the last Split.on_event published and returned
    input,            \* the event and cursor of the last Split.on_event
    pressed_over,     \* history: a press with the cursor over the divider
                      \* has been handled since the last release
    show,             \* ContextMenu State.show
    cursor_position,  \* ContextMenu State.cursor_position
    bounds,           \* layout bounds of the ContextMenu
    call,             \* the last ContextMenu widget call and where it went
    presses           \* history: right presses handled by ContextMenu.on_event

splitVars ==
    <<split, overflow_checks, node, dragging, shell, input, pressed_over>>
menuVars == <<show, cursor_position, bounds, call, presses>>
vars == <<split, overflow_checks, node, dragging, shell, input, pressed_over,
          show, cursor_position, bounds, call, presses>>

----------------------------------------------------------------------------
\* Numeric conversions and u16 arithmetic.

Max(a, b) == IF a >= b THEN a ELSE b
Min(a, b) == IF a <= b THEN a ELSE b

\* `(num / den) as u16` for an f32 of num fixed-point units: truncation
\* toward zero, saturating at 0 and at u16::MAX.
F32AsU16(num, den) ==
    IF num <= 0 THEN 0
    ELSE Min(num \div den, U16Modulus - 1)

\* f32::from(n) for a u16 n.
F32FromU16(n) == n * Frac

\* u16 `a + b` and `a - b`: the wrapped value, and whether it overflowed.
AddU16(a, b) == [val |-> (a + b) % U16Modulus, ovf |-> a + b >= U16Modulus]
SubU16(a, b) == [val |-> (a - b) % U16Modulus, ovf |-> a - b < 0]

\* Option<T>: None is <<>>, Some(v) is <<v>>.
None == <<>>
Some(v) == <<v>>

\* Point and Size are pairs <<x, y>> and <<width, height>>.
ORIGIN == <<0, 0>>

\* Rectangle::contains for a rectangle [x, y, width, height].
Contains(r, p) ==
    /\ r.x <= p[1] /\ p[1] < r.x + r.width
    /\ r.y <= p[2] /\ p[2] < r.y + r.height

\* cursor.position().unwrap_or_default(): an unavailable cursor is the origin.
PositionOrDefault(cursor) == IF cursor = None THEN ORIGIN ELSE cursor[1]

\* Cursor::is_over: the cursor is available and inside the bounds.
IsOver(cursor, r) == cursor # None /\ Contains(r, cursor[1])

----------------------------------------------------------------------------
\* Split layout.

\* A laid-out pane: the size its limits were shrunk by, the padding shrunk
\* after that, and where it was moved to.
Pane(shrink, padding, position) ==
    [shrink |-> shrink, padding |-> padding, position |-> position]

\* The divider node: Node::new(size) moved to position.
Divider(size, position) == [size |-> size, position |-> position]

\* A layout result. state is "ok" or "panic"; branch is "fallback" or
\* "split"; divider_position is the clamped position of the split branch.
LayoutNode(space, branch, dp, children) ==
    [state |-> "ok", space |-> space, branch |-> branch,
     divider_position |-> dp, children |-> children]

PanicNode(space) ==
    [state |-> "panic", space |-> space, branch |-> "panic",
     divider_position |-> None, children |-> <<>>]

NoNode ==
    [state |-> "none", space |-> ORIGIN, branch |-> "none",
     divider_position |-> None, children |-> <<>>]

\* The threshold test of both split functions: size along the axis <
\* spacing + f32::from(min_size_first + min_size_second), the sum in u16.
MinSum(s) == AddU16(s.min_size_first, s.min_size_second)

BelowThreshold(s, size) == size < s.spacing + F32FromU16(MinSum(s).val)

\* The first `let divider_position`: the supplied position or the midpoint,
\* at least half the spacing.
DividerStartWhole(s, size) ==
    Max(IF s.divider_position = None
            THEN F32AsU16(size, Frac)
            ELSE s.divider_position[1],
        F32AsU16(s.spacing, 2 * Frac))

DividerStart(s, size) ==
    Max(IF s.divider_position = None
            THEN F32AsU16(size, 2 * Frac)
            ELSE s.divider_position[1],
        F32AsU16(s.spacing, 2 * Frac))

\* The upper clamp bound: size as u16 - min_size_second - spacing as u16.
ClampHi(s, size) ==
    LET a == SubU16(F32AsU16(size, Frac), s.min_size_second)
        b == SubU16(a.val, F32AsU16(s.spacing, Frac))
    IN  [val |-> b.val, ovf |-> a.ovf \/ b.ovf]

\* The second `let divider_position`: the start less half the spacing,
\* clamped. Ord::clamp asserts lo <= hi in every build.
Clamped(s, size) ==
    LET d  == SubU16(DividerStart(s, size), F32AsU16(s.spacing, 2 * Frac))
        hi == ClampHi(s, size)
        lo == s.min_size_first
    IN  [val |-> Max(lo, Min(d.val, hi.val)),
         ovf |-> d.ovf \/ hi.ovf,
         assert |-> lo > hi.val]

\* Whether the layout panics: a u16 overflow under overflow checks, or the
\* failed assertion of clamp in the split branch.
LayoutPanics(s, size, checks) ==
    \/ checks /\ MinSum(s).ovf
    \/ /\ ~BelowThreshold(s, size)
       /\ \/ checks /\ Clamped(s, size).ovf
          \/ Clamped(s, size).assert

HorizontalFallback(s, space) ==
    LayoutNode(space, "fallback", None,
        << Pane(<<0, space[2]>>, 0, ORIGIN),
           Divider(<<space[2], s.spacing>>, ORIGIN),
           Pane(<<0, space[1]>>, 0, ORIGIN) >>)

horizontal_split(s, space, checks) ==
    IF LayoutPanics(s, space[2], checks) THEN PanicNode(space)
    ELSE IF BelowThreshold(s, space[2]) THEN HorizontalFallback(s, space)
    ELSE
      LET dp  == Clamped(s, space[2]).val
          pad == F32AsU16(s.padding, Frac)
      IN  LayoutNode(space, "split", Some(dp),
            << Pane(<<0, space[2] - F32FromU16(dp)>>, pad,
                    <<0 + s.padding, 0 + s.padding>>),
               Divider(<<space[1], s.spacing>>, <<0, F32FromU16(dp)>>),
               Pane(<<0, F32FromU16(dp) + s.spacing>>, pad,
                    <<0 + s.padding,
                      0 + F32FromU16(dp) + s.spacing + s.padding>>) >>)

VerticalFallback(s, space) ==
    LayoutNode(space, "fallback", None,
        << Pane(<<space[1], 0>>, 0, ORIGIN),
           Divider(<<s.spacing, space[2]>>, ORIGIN),
           Pane(<<space[1], 0>>, 0, ORIGIN) >>)

vertical_split(s, space, checks) ==
    IF LayoutPanics(s, space[1], checks) THEN PanicNode(space)
    ELSE IF BelowThreshold(s, space[1]) THEN VerticalFallback(s, space)
    ELSE
      LET dp  == Clamped(s, space[1]).val
          pad == F32AsU16(s.padding, Frac)
      IN  LayoutNode(space, "split", Some(dp),
            << Pane(<<space[1] - F32FromU16(dp), 0>>, pad,
                    <<0 + s.padding, 0 + s.padding>>),
               Divider(<<s.spacing, space[2]>>, <<F32FromU16(dp), 0>>),
               Pane(<<F32FromU16(dp) + s.spacing, 0>>, pad,
                    <<0 + F32FromU16(dp) + s.spacing + s.padding,
                      0 + s.padding>>) >>)

\* Split::layout: `space` is the size of the Fill x Fill Row laid out in the
\* limits; a fresh Node sits at the origin, so space.bounds().x and
\* space.bounds().y are the 0 of the positions above.
SplitLayout(s, space, checks) ==
    IF s.axis = "Horizontal"
        THEN horizontal_split(s, space, checks)
        ELSE vertical_split(s, space, checks)

----------------------------------------------------------------------------
\* Split events.

PressKinds == {"ButtonPressedLeft", "FingerPressed"}
ReleaseKinds == {"ButtonReleasedLeft", "FingerLifted"}
MoveKinds == {"CursorMoved", "FingerMoved"}

Event(kind, position) == [kind |-> kind, position |-> position]

NoInput == [event |-> Event("none", ORIGIN), cursor |-> None]
EmptyShell == [published |-> <<>>, status |-> "Ignored"]

\* event::Status::merge: Captured when either is.
Merge(a, b) == IF a = "Captured" \/ b = "Captured" THEN "Captured" ELSE "Ignored"

\* divider_layout.bounds(): the second child of the layout node, the Split
\* being laid out at the origin of the window.
DividerBounds(n) ==
    [x |-> n.children[2].position[1], y |-> n.children[2].position[2],
     width |-> n.children[2].size[1], height |-> n.children[2].size[2]]

\* The test of the press arm: the divider bounds contain the cursor
\* position, the origin standing in for an unavailable cursor.
OverDivider(n, cursor) == Contains(DividerBounds(n), PositionOrDefault(cursor))

\* SplitState.dragging after the match on the event.
DraggingAfterFollowsPress(d, n, event, cursor) ==
    CASE event.kind \in PressKinds -> OverDivider(n, cursor)
      [] event.kind \in ReleaseKinds -> FALSE
      [] OTHER -> d

DraggingAfter(d, n, event, cursor) ==
    CASE event.kind \in PressKinds ->
            IF OverDivider(n, cursor) THEN TRUE ELSE d
      [] event.kind \in ReleaseKinds ->
            IF d THEN FALSE ELSE d
      [] OTHER -> d

\* The coordinate of the move arm: y for Axis::Horizontal, x for Vertical.
AxisCoordinateSwapped(s, position) ==
    IF s.axis = "Horizontal" THEN position[1] ELSE position[2]

AxisCoordinate(s, position) ==
    IF s.axis = "Horizontal" THEN position[2] ELSE position[1]

\* What the move arm publishes: (self.on_resize)(position as u16) while
\* dragging, nothing otherwise.
PublishedCursorOnly(s, d, event) ==
    IF event.kind = "CursorMoved" /\ d
        THEN << F32AsU16(AxisCoordinate(s, event.position), Frac) >>
        ELSE <<>>

Published(s, d, event) ==
    IF event.kind \in MoveKinds /\ d
        THEN << F32AsU16(AxisCoordinate(s, event.position), Frac) >>
        ELSE <<>>

----------------------------------------------------------------------------
\* Split operations.

\* Split::new and the builder setters: the view is rebuilt, the tree state
\* (dragging) is kept, the layout is to be computed anew and the messages of
\* the previous events have been taken by the runtime.
Split_new(s) ==
    /\ node.state # "panic"
    /\ split' = s
    /\ node' = NoNode
    /\ shell' = EmptyShell
    /\ input' = NoInput
    /\ UNCHANGED <<overflow_checks, dragging, pressed_over>>
    /\ UNCHANGED menuVars

\* Split::layout in limits whose Fill x Fill space is `space`.
Split_layout(space) ==
    /\ node.state # "panic"
    /\ node' = SplitLayout(split, space, overflow_checks)
    /\ UNCHANGED <<split, overflow_checks, dragging, shell, input,
                   pressed_over>>
    /\ UNCHANGED menuVars

\* Split::on_event: the first pane handles the event, then the match on the
\* event, then the second pane; the merged status is returned.
Split_on_event(event, cursor, first_status, second_status) ==
    /\ node.state = "ok"
    /\ dragging' = DraggingAfter(dragging, node, event, cursor)
    /\ shell' = [published |-> Published(split, dragging, event),
                 status |-> Merge(first_status, second_status)]
    /\ input' = [event |-> event, cursor |-> cursor]
    /\ pressed_over' =
         CASE event.kind \in PressKinds ->
                 pressed_over \/ IsOver(cursor, DividerBounds(node))
           [] event.kind \in ReleaseKinds -> FALSE
           [] OTHER -> pressed_over
    /\ UNCHANGED <<split, overflow_checks, node>>
    /\ UNCHANGED menuVars

----------------------------------------------------------------------------
\* ContextMenu.

\* A widget call of the ContextMenu: the operation, the tree child it was
\* routed to (-1 when the ContextMenu handled it itself), the event and
\* cursor of an on_event, what was passed to the underlay's on_event, the
\* status the underlay returned and the status returned to the caller; for
\* an overlay call, the translation given and the position of the
\* ContextMenuOverlay built (None when the underlay's overlay is returned).
Call(op, child, event, cursor, forwarded, under_status, status) ==
    [op |-> op, child |-> child, event |-> event, cursor |-> cursor,
     forwarded |-> forwarded, under_status |-> under_status,
     status |-> status, translation |-> ORIGIN, position |-> None]

NoCall == Call("none", -1, "none", None, None, "none", "none")

\* layout: always the underlay, tree.children[0].
LayoutChild(s) == 0

\* draw: always the underlay, state.children[0].
DrawChildByShow(s) == IF s THEN 1 ELSE 0

DrawChild(s) == 0

\* operate: the overlay content and children[1] when show, else the
\* underlay and children[0].
OperateChildUnderlay(s) == 0

OperateChild(s) == IF s THEN 1 ELSE 0

\* The guard of on_event's own arm: a right press with the cursor over the
\* layout bounds.
HandlesAnyRightPress(event, cursor, b) == event = "ButtonPressedRight"

Handles(event, cursor, b) ==
    event = "ButtonPressedRight" /\ IsOver(cursor, b)

\* s.show = !s.show
ToggledSetTrue(s) == TRUE

Toggled(s) == ~s

\* Point + Vector.
Translated(p, v) == <<p[1] + v[1], p[2] + v[2]>>

\* The position given to ContextMenuOverlay::new: position + translation.
OverlayPositionUntranslated(p, v) == p

OverlayPosition(p, v) == Translated(p, v)

\* overlay: the underlay's overlay with children[0] when show is false,
\* else a ContextMenuOverlay of the content with children[1].
OverlayCall(s, p, v) ==
    [Call("overlay", IF s THEN 1 ELSE 0, "none", None, None, "none", "none")
        EXCEPT !.translation = v,
               !.position = IF s THEN Some(OverlayPosition(p, v)) ELSE None]

ContextMenu_layout(b) ==
    /\ bounds' = b
    /\ call' = Call("layout", LayoutChild(show), "none", None, None,
                    "none", "none")
    /\ UNCHANGED <<show, cursor_position, presses>>
    /\ UNCHANGED splitVars

ContextMenu_draw ==
    /\ call' = Call("draw", DrawChild(show), "none", None, None,
                    "none", "none")
    /\ UNCHANGED <<show, cursor_position, bounds, presses>>
    /\ UNCHANGED splitVars

ContextMenu_operate ==
    /\ call' = Call("operate", OperateChild(show), "none", None, None,
                    "none", "none")
    /\ UNCHANGED <<show, cursor_position, bounds, presses>>
    /\ UNCHANGED splitVars

ContextMenu_overlay(translation) ==
    /\ call' = OverlayCall(show, cursor_position, translation)
    /\ UNCHANGED <<show, cursor_position, bounds, presses>>
    /\ UNCHANGED splitVars

\* on_event: a right press over the bounds records the cursor position,
\* toggles show and is captured; every other event goes to the underlay's
\* on_event with children[0], whose status is returned.
ContextMenu_on_event(event, cursor, under_status) ==
    /\ event = "ButtonPressedRight" => presses.handled < MaxPresses
    /\ IF Handles(event, cursor, bounds)
         THEN /\ cursor_position' = PositionOrDefault(cursor)
              /\ show' = Toggled(show)
              /\ call' = Call("on_event", -1, event, cursor, None,
                              "none", "Captured")
         ELSE /\ UNCHANGED <<show, cursor_position>>
              /\ call' = Call("on_event", 0, event, cursor,
                              Some([event |-> event, cursor |-> cursor]),
                              under_status, under_status)
    /\ presses' =
         [handled |-> presses.handled
                        + (IF event = "ButtonPressedRight" THEN 1 ELSE 0),
          over |-> presses.over
                        + (IF event = "ButtonPressedRight"
                              /\ IsOver(cursor, bounds) THEN 1 ELSE 0),
          at |-> IF event = "ButtonPressedRight" /\ IsOver(cursor, bounds)
                    THEN cursor[1] ELSE presses.at]
    /\ UNCHANGED bounds
    /\ UNCHANGED splitVars

----------------------------------------------------------------------------
\* Inputs.

Axes == {"Horizontal", "Vertical"}
Statuses == {"Ignored", "Captured"}

SplitOf(axis, dp, spacing, padding, m1, m2) ==
    [axis |-> axis, divider_position |-> dp, spacing |-> spacing,
     padding |-> padding, min_size_first |-> m1, min_size_second |-> m2]

\* Split::new: padding 0.0, spacing 5.0, both minimum sizes 5.
DefaultSplit == SplitOf("Vertical", None, 5 * Frac, 0, 5, 5)

\* The configurations and spaces of the layout specification: whole and
\* fractional spacings, minimum sizes whose u16 sum overflows, spaces
\* beyond u16::MAX.
LayoutSplits ==
    { SplitOf(a, dp, sp, pd, m1, m2) :
        a \in Axes,
        dp \in {None, Some(0), Some(3), Some(100), Some(U16Modulus - 1)},
        sp \in {0, 1, 5 * Frac, 5 * Frac + 1},
        pd \in {0, Frac + 1},
        m1 \in {0, 5, 40000, U16Modulus - 1},
        m2 \in {1, 5, 40000} }

LayoutSizes ==
    {0, 10 * Frac, 11 * Frac, 15 * Frac + 1, 20000 * Frac, 100000 * Frac}

LayoutSpaces == LayoutSizes \X LayoutSizes

\* The configurations, spaces, events and cursors of the event
\* specification.
EventSplits ==
    { SplitOf(a, dp, 2 * Frac, 0, m1, 2) :
        a \in Axes, dp \in {None, Some(0), Some(9)}, m1 \in {0, 2} }

EventSpaces == { <<3 * Frac, 3 * Frac>>, <<12 * Frac, 12 * Frac>> }

Points ==
    { ORIGIN,
      <<2 * Frac, 6 * Frac + 1>>,
      <<6 * Frac + 1, 2 * Frac>>,
      <<0 - Frac, 70000 * Frac>>,
      <<70000 * Frac, 0 - Frac>> }

Cursors == {None} \cup { Some(p) : p \in Points }

SplitEvents ==
    { Event(k, ORIGIN) :
        k \in {"ButtonPressedLeft", "ButtonReleasedLeft", "Other"} }
    \cup { Event(k, p) :
        k \in {"FingerPressed", "FingerLifted", "CursorMoved", "FingerMoved"},
        p \in Points }

MenuEvents ==
    {"ButtonPressedRight", "ButtonReleasedRight", "ButtonPressedLeft",
     "CursorMoved", "Other"}

Rect(x, y, w, h) == [x |-> x, y |-> y, width |-> w, height |-> h]

Translations == { ORIGIN, <<3 * Frac, 0 - Frac>> }

MenuBounds ==
    { Rect(0, 0, 8 * Frac, 8 * Frac), Rect(Frac, Frac, 2 * Frac, 2 * Frac) }

----------------------------------------------------------------------------
\* Specifications.

SplitIdle ==
    /\ split = DefaultSplit
    /\ overflow_checks = FALSE
    /\ node = NoNode
    /\ dragging = FALSE
    /\ shell = EmptyShell
    /\ input = NoInput
    /\ pressed_over = FALSE

\* State::new: show false, cursor_position the origin.
MenuIdle ==
    /\ show = FALSE
    /\ cursor_position = ORIGIN
    /\ bounds = Rect(0, 0, 8 * Frac, 8 * Frac)
    /\ call = NoCall
    /\ presses = [handled |-> 0, over |-> 0, at |-> ORIGIN]

\* The layout functions over their inputs.
InitLayout ==
    /\ split \in LayoutSplits
    /\ overflow_checks \in BOOLEAN
    /\ node = NoNode
    /\ dragging = FALSE
    /\ shell = EmptyShell
    /\ input = NoInput
    /\ pressed_over = FALSE
    /\ MenuIdle

NextLayout == \E space \in LayoutSpaces : Split_layout(space)

SpecLayout == InitLayout /\ [][NextLayout]_vars

\* The Split under events. SplitState::new: dragging false.
InitSplit ==
    /\ split \in EventSplits
    /\ overflow_checks \in BOOLEAN
    /\ node = NoNode
    /\ dragging = FALSE
    /\ shell = EmptyShell
    /\ input = NoInput
    /\ pressed_over = FALSE
    /\ MenuIdle

NextSplit ==
    \/ \E s \in EventSplits : Split_new(s)
    \/ \E space \in EventSpaces : Split_layout(space)
    \/ \E e \in SplitEvents, c \in Cursors, s1 \in Statuses, s2 \in Statuses :
          Split_on_event(e, c, s1, s2)

SpecSplit == InitSplit /\ [][NextSplit]_vars

\* The ContextMenu under widget calls.
InitMenu ==
    /\ SplitIdle
    /\ show = FALSE
    /\ cursor_position = ORIGIN
    /\ bounds \in MenuBounds
    /\ call = NoCall
    /\ presses = [handled |-> 0, over |-> 0, at |-> ORIGIN]

NextMenu ==
    \/ \E b \in MenuBounds : ContextMenu_layout(b)
    \/ ContextMenu_draw
    \/ ContextMenu_operate
    \/ \E v \in Translations : ContextMenu_overlay(v)
    \/ \E e \in MenuEvents, c \in Cursors, u \in Statuses :
          ContextMenu_on_event(e, c, u)

SpecMenu == InitMenu /\ [][NextMenu]_vars

----------------------------------------------------------------------------
\* Properties of the Split layout (SpecLayout).

\* The size of the laid-out space along the split axis.
AxisSize == IF split.axis = "Horizontal" THEN node.space[2] ELSE node.space[1]

\* spacing + min_size_first + min_size_second, the sum not wrapped.
Threshold ==
    split.spacing + (split.min_size_first + split.min_size_second) * Frac

PaneFields == {"shrink", "padding", "position"}
DividerFields == {"size", "position"}

\* C1: for a size along the split axis at or above spacing +
\* min_size_first + min_size_second and any supplied divider_position, the
\* layout computes a divider position within
\* [min_size_first, size - min_size_second - spacing].
C1_DividerWithinRange ==
    (node.state # "none" /\ AxisSize >= Threshold) =>
        /\ node.state = "ok"
        /\ node.branch = "split"
        /\ split.min_size_first <= node.divider_position[1]
        /\ F32FromU16(node.divider_position[1])
              <= AxisSize - split.min_size_second * Frac - split.spacing

\* C6: for a size along the split axis below the threshold and any u16
\* minimum sizes, the layout does not panic and returns exactly three
\* children: first pane, divider, second pane.
C6_UndersizedNeverPanics ==
    (node.state # "none" /\ AxisSize < Threshold) =>
        /\ node.state = "ok"
        /\ Len(node.children) = 3
        /\ DOMAIN node.children[1] = PaneFields
        /\ DOMAIN node.children[2] = DividerFields
        /\ DOMAIN node.children[3] = PaneFields

\* The midpoint and half the spacing as the layout truncates them to u16.
MidpointU16 ==
    IF AxisSize \div (2 * Frac) > U16Modulus - 1
        THEN U16Modulus - 1
        ELSE AxisSize \div (2 * Frac)

HalfSpacingU16 == split.spacing \div (2 * Frac)

\* C11: with divider_position None, a layout of the split branch puts the
\* divider at the midpoint of the space along the split axis, clamped into
\* the range of the layout.
C11_DefaultIsMidpoint ==
    (node.state = "ok" /\ node.branch = "split"
        /\ split.divider_position = None) =>
        node.divider_position
            = Some(Max(split.min_size_first,
                       Min(MidpointU16, ClampHi(split, AxisSize).val)))

\* C11 as amended: with divider_position None, a layout of the split branch
\* puts the divider at the midpoint less half the spacing, both truncated to
\* u16, clamped into the range of the layout: the divider strip is centred
\* on the midpoint.
C11_DefaultIsMidpointLessHalfSpacing ==
    (node.state = "ok" /\ node.branch = "split"
        /\ split.divider_position = None) =>
        node.divider_position
            = Some(Max(split.min_size_first,
                       Min(Max(MidpointU16, HalfSpacingU16) - HalfSpacingU16,
                           ClampHi(split, AxisSize).val)))

\* An unclamped default position below the midpoint.
C11_Witness ==
    /\ node.state = "ok"
    /\ node.branch = "split"
    /\ split.divider_position = None
    /\ HalfSpacingU16 > 0
    /\ node.divider_position = Some(MidpointU16 - HalfSpacingU16)
    /\ split.min_size_first < node.divider_position[1]
    /\ node.divider_position[1] < ClampHi(split, AxisSize).val
    /\ AxisSize >= Threshold

\* The transpose of a point or size, and the layout of the same Split
\* along the other axis in the transposed space.
Transpose(p) == <<p[2], p[1]>>

OtherAxisLayout ==
    SplitLayout(
        [split EXCEPT !.axis = IF @ = "Horizontal" THEN "Vertical"
                                                   ELSE "Horizontal"],
        Transpose(node.space), overflow_checks)

\* C15: horizontal_split and vertical_split are transposes of each other,
\* in the split branch and in the undersized branch: the divider's size
\* and position and the sizes the limits of the two panes are shrunk by.
C15_AxesAreTransposes ==
    node.state = "ok" =>
        /\ OtherAxisLayout.state = "ok"
        /\ OtherAxisLayout.branch = node.branch
        /\ OtherAxisLayout.children[2].size
              = Transpose(node.children[2].size)
        /\ OtherAxisLayout.children[2].position
              = Transpose(node.children[2].position)
        /\ OtherAxisLayout.children[1].shrink
              = Transpose(node.children[1].shrink)
        /\ OtherAxisLayout.children[3].shrink
              = Transpose(node.children[3].shrink)

\* C16: in the split branch, a size at or above the threshold, no u16
\* operation overflows and the clamp bounds are ordered, whatever the
\* divider_position and the minimum sizes: the layout does not panic.
C16_SplitBranchArithmeticSafe ==
    (node.state # "none" /\ AxisSize >= Threshold) =>
        /\ ~MinSum(split).ovf
        /\ ~Clamped(split, AxisSize).ovf
        /\ split.min_size_first <= ClampHi(split, AxisSize).val
        /\ node.state = "ok"

----------------------------------------------------------------------------
\* Properties of the Split events (SpecSplit).

\* C4: dragging turns from false to true only on a left-button or finger
\* press with an available cursor position inside the divider bounds.
C4_DragStartsOnlyOverDivider ==
    [][ (~dragging /\ dragging') =>
            /\ input'.event.kind \in PressKinds
            /\ input'.cursor # None
            /\ Contains(DividerBounds(node), input'.cursor[1]) ]_vars

\* C5: a cursor or finger move handled while dragging publishes exactly
\* one resize message.
C5_OneMessagePerMove ==
    (input.event.kind \in MoveKinds /\ dragging) => Len(shell.published) = 1

C5_Witness ==
    /\ input.event.kind = "FingerMoved"
    /\ dragging
    /\ Len(shell.published) = 1

\* C7: a release or finger lift leaves dragging false, whatever the cursor
\* and the prior value; and from then on a move publishes no resize message
\* until a new press with the cursor over the divider has been handled.
C7_ReleaseEndsDrag ==
    /\ input.event.kind \in ReleaseKinds => ~dragging
    /\ (input.event.kind \in MoveKinds /\ ~dragging) => shell.published = <<>>
    /\ shell.published # <<>> => pressed_over

\* C10: the message of a move while dragging is the event's coordinate
\* along the split axis (y for Horizontal, x for Vertical) as u16:
\* truncated and saturated, not clamped to the range of the layout.
C10_MessageIsAxisCoordinate ==
    (input.event.kind \in MoveKinds /\ dragging) =>
        LET c == IF split.axis = "Horizontal"
                    THEN input.event.position[2]
                    ELSE input.event.position[1]
            u == IF c < 0 THEN 0
                 ELSE IF c \div Frac > U16Modulus - 1 THEN U16Modulus - 1
                 ELSE c \div Frac
        IN  shell.published = << u >>

\* A message above the upper clamp bound of the current layout.
C10_Witness ==
    /\ input.event.kind \in MoveKinds
    /\ dragging
    /\ node.branch = "split"
    /\ shell.published # <<>>
    /\ F32FromU16(shell.published[1])
          > AxisSize - split.min_size_second * Frac - split.spacing
    /\ shell.published[1] = U16Modulus - 1

\* C13: dragging changes only while a press or a release is handled;
\* moves and other events leave it as it was, and a press handled while
\* dragging is true, outside the divider bounds too, leaves it true.
C13_DraggingChangesOnPressRelease ==
    [][ /\ dragging' # dragging =>
              input'.event.kind \in PressKinds \cup ReleaseKinds
        /\ (dragging /\ ~dragging') => input'.event.kind \in ReleaseKinds
        /\ (dragging /\ input'.event.kind \in PressKinds) => dragging'
      ]_vars

\* Still dragging after a press away from the divider.
C13_Witness ==
    /\ dragging
    /\ pressed_over
    /\ node.state = "ok"
    /\ input.event.kind \in PressKinds
    /\ input.cursor # None
    /\ ~Contains(DividerBounds(node), input.cursor[1])

\* C14: the Split publishes a resize message only while handling a move
\* with dragging true, and none before a press with the cursor over the
\* divider has been handled since the start or the last release.
C14_PublishesOnlyWhileDragging ==
    shell.published # <<>> =>
        /\ input.event.kind \in MoveKinds
        /\ dragging
        /\ pressed_over

----------------------------------------------------------------------------
\* Properties of the ContextMenu (SpecMenu).

\* C2: every right press toggles show, so show is true exactly when an odd
\* number of right presses have been handled.
C2_EveryRightPressToggles == show <=> (presses.handled % 2 = 1)

\* C2 as amended: every right press with the cursor over the bounds
\* toggles show, and no other event changes it.
C2_RightPressOverBoundsToggles == show <=> (presses.over % 2 = 1)

C2_Witness ==
    /\ call.op = "on_event"
    /\ call.event = "ButtonPressedRight"
    /\ call.child = -1
    /\ presses.over = 2
    /\ presses.handled = 3
    /\ ~show

\* C3: while show is true an operate call goes to the overlay content,
\* tree child 1, never to the underlay, tree child 0.
C3_OperateRoutedToOverlay == (call.op = "operate" /\ show) => call.child = 1

C3_Witness == call.op = "operate" /\ show /\ call.child = 1 /\ presses.over = 3

\* C8: an event other than a right press over the bounds goes unchanged to
\* the underlay's on_event, its status is returned, and show and
\* cursor_position are left as they were.
C8_OtherEventsPassThrough ==
    [][ (/\ call'.op = "on_event"
         /\ ~(call'.event = "ButtonPressedRight"
              /\ IsOver(call'.cursor, bounds))) =>
            /\ show' = show
            /\ cursor_position' = cursor_position
            /\ call'.child = 0
            /\ call'.forwarded
                  = Some([event |-> call'.event, cursor |-> call'.cursor])
            /\ call'.status = call'.under_status ]_vars

\* A right press outside the bounds, passed on while the menu is shown.
C8_Witness ==
    /\ call.op = "on_event"
    /\ call.event = "ButtonPressedRight"
    /\ ~IsOver(call.cursor, bounds)
    /\ call.forwarded = Some([event |-> call.event, cursor |-> call.cursor])
    /\ call.status = "Captured"
    /\ show
    /\ cursor_position # ORIGIN

\* C12: an overlay call while show is true returns a ContextMenuOverlay of
\* the content (tree child 1) at the cursor position of the most recent
\* right press over the bounds plus the translation; while show is false
\* it returns the underlay's own overlay (tree child 0).
C12_OverlayAtRecordedPosition ==
    call.op = "overlay" =>
        IF show
            THEN /\ call.child = 1
                 /\ call.position
                       = Some(<<presses.at[1] + call.translation[1],
                                presses.at[2] + call.translation[2]>>)
            ELSE /\ call.child = 0
                 /\ call.position = None

\* Shown at a translated position after a later right press outside the
\* bounds.
C12_Witness ==
    /\ call.op = "overlay"
    /\ show
    /\ call.translation # ORIGIN
    /\ presses.at # ORIGIN
    /\ presses.over = 1
    /\ presses.handled = 2
    /\ call.position = Some(Translated(presses.at, call.translation))

\* C9: while show is true, layout and draw calls go to the overlay
\* content.
C9_LayoutDrawRoutedToOverlay ==
    (call.op \in {"layout", "draw"} /\ show) => call.child = 1

\* C9 as amended: layout and draw calls always go to the underlay, tree
\* child 0, whatever show is; only operate calls follow show.
C9_LayoutDrawRoutedToUnderlay ==
    /\ call.op \in {"layout", "draw"} => call.child = 0
    /\ call.op = "operate" => call.child = (IF show THEN 1 ELSE 0)

C9_Witness == call.op = "draw" /\ show /\ call.child = 0

====
